---- MODULE Spec2Model ----
(***************************************************************************)
(* Model of the flaskban domain layer (flaskban_server/domain/models.py):  *)
(* the User, Board, Column and Task active records over the relational     *)
(* store.  Every operation is one request: it runs in its own session and  *)
(* either commits or leaves the store as it was.                           *)
(***************************************************************************)
EXTENDS FiniteSets, Integers, Sequences, TLC

(* Python None for a string-valued attribute, SQL NULL for an integer one. *)
None == "None"
NoId == 0

(* Bounds of the model. *)
MaxUserId == 3
MaxBoardId == 2
MaxColumnId == 2
MaxTaskId == 2

(* Values the bounded inputs are drawn from. *)
Names == {"a", "b"}
Emails == {"a@x.io", "b@x.io"}
UserNames == {"a", "b", "c"}
UserEmails == {"a@x.io", "b@x.io", "c@x.io"}
Hashes == {"$pbkdf2$pwd"}
Visibilities == {"private", "public"}

VARIABLES users, boards, columns, tasks, last, running

vars == <<users, boards, columns, tasks, last, running>>

(* ---------------------------------------------------------------------- *)
(* Python and datastore helpers                                            *)
(* ---------------------------------------------------------------------- *)

(* Python truthiness of an attribute: `not x` holds for None and for ''.   *)
Truthy(x) == x # None /\ x # ""

(* Outcome of a call: the error raised ("ok" when none) with its message,  *)
(* the value returned and the store after the request.                     *)
Ok(v, db) == [err |-> "ok", msg |-> "", val |-> v, db |-> db]
Raise(e, m, db) == [err |-> e, msg |-> m, val |-> <<>>, db |-> db]

MaxOf(S) == CHOOSE m \in S : \A x \in S : x <= m

(* SQLite INTEGER PRIMARY KEY without AUTOINCREMENT: largest rowid + 1.    *)
NextId(rows) == IF rows = {} THEN 1 ELSE MaxOf({r.id : r \in rows}) + 1

(* Query.scalar(): None for no row, the row when there is exactly one,     *)
(* MultipleResultsFound when the query yields several rows.                *)
(* `truthy` is the truth value Python gives the result (a row is truthy).  *)
QueryScalar(rows) ==
    IF rows = {} THEN [err |-> "ok", truthy |-> FALSE]
    ELSE IF Cardinality(rows) = 1 THEN [err |-> "ok", truthy |-> TRUE]
    ELSE [err |-> "MultipleResultsFound", truthy |-> FALSE]

BoardMsg(board_id) == "Board with id " \o ToString(board_id) \o " does not exist"
ColumnMsg(board_id, column_id) ==
    "Column with id " \o ToString(column_id)
        \o " does not exist in board with id " \o ToString(board_id)

(* ---------------------------------------------------------------------- *)
(* User                                                                    *)
(* ---------------------------------------------------------------------- *)

(* Mutant of UserConstraintsOk: the columns are NOT NULL but not unique.   *)
UserConstraintsOk_NotNullOnly(us, u) ==
    u.name # None /\ u.email # None /\ u.password # None

(* UNIQUE(name), UNIQUE(email), NOT NULL columns of the user table.        *)
UserConstraintsOk(us, u) ==
    /\ u.name # None /\ u.email # None /\ u.password # None
    /\ \A s \in us : s.name # u.name /\ s.email # u.email

(* User.query.filter(exists().where(name = ? OR email = ?)): the EXISTS    *)
(* subquery has one FROM (user), so it is not correlated to the enclosing  *)
(* SELECT: every row of user is selected as soon as one row matches.       *)
UserExistsRows(us, u) ==
    IF \E s \in us : s.name = u.name \/ s.email = u.email THEN us ELSE {}

User_exists(us, u) == QueryScalar(UserExistsRows(us, u))

(* The reads of save: the required fields, then exists().                 *)
User_save_check(us, u) ==
    IF ~Truthy(u.name) \/ ~Truthy(u.password) \/ ~Truthy(u.email)
    THEN Raise("InvalidDataError", "Required fields are not present", us)
    ELSE LET found == User_exists(us, u) IN
         IF found.err # "ok" THEN Raise(found.err, "", us)
         ELSE IF found.truthy THEN Raise("AlreadyExistsError", "User already exists", us)
         ELSE Ok(<<>>, us)

(* DB.session.add(self); DB.session.commit(): the INSERT, which the table  *)
(* constraints may reject.                                                 *)
User_save_commit(us, u) ==
    IF ~UserConstraintsOk(us, u) THEN Raise("IntegrityError", "", us)
    ELSE Ok(<<>>, us \cup {[id |-> NextId(us), name |-> u.name,
                            email |-> u.email, password |-> u.password]})

User_save(us, u) ==
    LET checked == User_save_check(us, u) IN
    IF checked.err # "ok" THEN checked ELSE User_save_commit(us, u)

User_register(us, u) == User_save(us, u)

(* pbkdf2_sha256.hash(plain): a string that is never empty and never the   *)
(* plaintext; the salt is left out, so that verify is equality of hashes.  *)
Hash(plain) == "$pbkdf2$" \o plain

(* pbkdf2_sha256.verify(plain, hash). *)
Verify(plain, hash) == hash = Hash(plain)

(* User(name=..., email=..., password=plain): the `password` setter hashes *)
(* whatever plaintext it is given, '' included; a keyword that is not      *)
(* passed (None here) leaves the attribute None.                           *)
User_init(name, email, plain) ==
    [name |-> name, email |-> email,
     password |-> IF plain = None THEN None ELSE Hash(plain)]

(* What a lookup hands back: None (kind "none"), a User (kind "user",      *)
(* rows = {that row}) or a Query object that was never executed (kind      *)
(* "query", rows = the rows it would yield).                               *)
User_find_by_name(us, name) ==
    LET rows == {s \in us : s.name = name} IN
    IF rows = {} THEN [kind |-> "none", rows |-> {}]
    ELSE [kind |-> "user", rows |-> {CHOOSE s \in rows : TRUE}]

(* cls.query.filter_by(email=email) without .first(): a Query object.      *)
User_find_by_email(us, email) ==
    [kind |-> "query", rows |-> {s \in us : s.email = email}]

(* create_access_token(identity=...): the token carries the identity.      *)
create_access_token(identity) == [identity |-> identity]

(* Mutant of User_login: the password is not verified.                     *)
User_login_NoVerify(us, user) ==
    LET db_user == IF Truthy(user.name) THEN User_find_by_name(us, user.name)
                   ELSE User_find_by_email(us, user.email)
    IN
    IF db_user.kind = "none"
    THEN Raise("UnauthorizedError", "Wrong username or password", us)
    ELSE IF db_user.kind = "query" THEN Raise("AttributeError", "", us)
    ELSE Ok(create_access_token((CHOOSE s \in db_user.rows : TRUE).id), us)

(* Mutant of User_login: the email is used for the lookup when present.    *)
User_login_EmailFirst(us, user) ==
    LET db_user == IF Truthy(user.email) THEN User_find_by_email(us, user.email)
                   ELSE User_find_by_name(us, user.name)
    IN
    IF db_user.kind = "none"
    THEN Raise("UnauthorizedError", "Wrong username or password", us)
    ELSE IF db_user.kind = "query" THEN Raise("AttributeError", "", us)
    ELSE LET row == CHOOSE s \in db_user.rows : TRUE IN
         IF ~Verify(user.password, row.password)
         THEN Raise("UnauthorizedError", "Wrong username or password", us)
         ELSE Ok(create_access_token(row.id), us)

(* `not db_user` holds for None only: a Query object is truthy and has no  *)
(* attribute `password`, so reading db_user.password raises AttributeError.*)
User_login(us, user) ==
    LET db_user == IF Truthy(user.name) THEN User_find_by_name(us, user.name)
                   ELSE User_find_by_email(us, user.email)
    IN
    IF db_user.kind = "none"
    THEN Raise("UnauthorizedError", "Wrong username or password", us)
    ELSE IF db_user.kind = "query" THEN Raise("AttributeError", "", us)
    ELSE LET row == CHOOSE s \in db_user.rows : TRUE IN
         IF ~Verify(user.password, row.password)
         THEN Raise("UnauthorizedError", "Wrong username or password", us)
         ELSE Ok(create_access_token(row.id), us)

(* ---------------------------------------------------------------------- *)
(* Board                                                                   *)
(* ---------------------------------------------------------------------- *)

Board_exists_by_id(db, id) == \E b \in db.boards : b.id = id

Board_find_by_id(db, id) ==
    IF ~\E b \in db.boards : b.id = id
    THEN Raise("NotFoundError", BoardMsg(id), db)
    ELSE Ok(CHOOSE b \in db.boards : b.id = id, db)

(* Mutant of CascadeColumns: Column.tasks without cascade='delete'.        *)
CascadeColumnsKeepTasks(db, cols) ==
    [db EXCEPT !.columns = db.columns \ cols]

(* Column.tasks = relationship('Task', cascade='delete'): the tasks whose  *)
(* column_id is one of the deleted columns go with them.                   *)
CascadeColumns(db, cols) ==
    [db EXCEPT !.columns = db.columns \ cols,
               !.tasks = {t \in db.tasks : ~\E c \in cols : t.column_id = c.id}]

(* Mutant of CascadeBoard: the columns go with the board, their tasks stay. *)
CascadeBoardColumnsOnly(db, board) ==
    [db EXCEPT !.boards = db.boards \ {board},
               !.columns = {c \in db.columns : c.board_id # board.id}]

(* Mutant of CascadeBoard: the columns and tasks of every board go.        *)
CascadeBoardEveryColumn(db, board) ==
    [db EXCEPT !.boards = db.boards \ {board}, !.columns = {}, !.tasks = {}]

(* Board.columns = relationship('Column', cascade='delete'): the columns   *)
(* whose board_id is the deleted board go with it, and their tasks too.    *)
CascadeBoard(db, board) ==
    LET cols == {c \in db.columns : c.board_id = board.id}
        rest == CascadeColumns(db, cols)
    IN [rest EXCEPT !.boards = db.boards \ {board}]

(* cls.query.filter_by(id_=id_).one(): NoResultFound when no row has the  *)
(* id (the id is the primary key, so there is never more than one).        *)
Board_delete_fetch(db, id) ==
    LET rows == {b \in db.boards : b.id = id} IN
    IF rows = {} THEN Raise("NoResultFound", "", db)
    ELSE Ok(CHOOSE b \in rows : TRUE, db)

(* DB.session.delete(board): the cascade loads, when delete is called, the *)
(* columns of the board and their tasks as they are stored then, and marks *)
(* them for deletion together with the board.                              *)
Board_delete_mark(db, board) ==
    LET rest == CascadeBoard(db, board) IN
    [board |-> board, columns |-> db.columns \ rest.columns,
     tasks |-> db.tasks \ rest.tasks]

(* DB.session.commit(): one DELETE by primary key for each marked row; the *)
(* rows committed by others since the marking are not looked at, and a     *)
(* DELETE that matches no row (the row is already gone) is a warning of    *)
(* the ORM, not an error.                                                  *)
Board_delete_commit(db, marked) ==
    Ok(<<>>, [db EXCEPT
                !.boards = {b \in db.boards : b.id # marked.board.id},
                !.columns = {c \in db.columns :
                               c.id \notin {m.id : m \in marked.columns}},
                !.tasks = {t \in db.tasks :
                             t.id \notin {m.id : m \in marked.tasks}}])

Board_delete(db, id) ==
    IF ~Board_exists_by_id(db, id)
    THEN Raise("NotFoundError", BoardMsg(id), db)
    ELSE LET board == Board_delete_fetch(db, id) IN
         IF board.err # "ok" THEN board
         ELSE Board_delete_commit(db, Board_delete_mark(db, board.val))

(* Mutant of BoardMerged: the visibility is copied even when it is None.   *)
BoardMergedCopiesNone(self, other) ==
    [self EXCEPT !.name = IF Truthy(other.name) THEN other.name ELSE self.name,
                 !.visibility = other.visibility]

(* The object `self` after the two conditional assignments of merge.       *)
BoardMerged(self, other) ==
    [self EXCEPT !.name = IF Truthy(other.name) THEN other.name ELSE self.name,
                 !.visibility = IF Truthy(other.visibility)
                                THEN other.visibility ELSE self.visibility]

(* `self` is a stored board (callers obtain it from find_by_id); the       *)
(* commit writes its row back under the same primary key.                  *)
Board_merge(db, self, other) ==
    LET merged == BoardMerged(self, other) IN
    Ok(merged, [db EXCEPT !.boards = (db.boards \ {self}) \cup {merged}])

(* Mutant of Board_save: the visibility is not required.                   *)
Board_save_NoVisibilityCheck(db, board) ==
    IF ~Truthy(board.name)
    THEN Raise("InvalidDataError", "Required fields are not present", db)
    ELSE LET row == [id |-> NextId(db.boards), name |-> board.name,
                     visibility |-> board.visibility]
         IN Ok(row, [db EXCEPT !.boards = db.boards \cup {row}])

Board_save(db, board) ==
    IF ~Truthy(board.name) \/ ~Truthy(board.visibility)
    THEN Raise("InvalidDataError", "Required fields are not present", db)
    ELSE LET row == [id |-> NextId(db.boards), name |-> board.name,
                     visibility |-> board.visibility]
         IN Ok(row, [db EXCEPT !.boards = db.boards \cup {row}])

(* ---------------------------------------------------------------------- *)
(* Column                                                                  *)
(* ---------------------------------------------------------------------- *)

(* Mutant of ColumnConstraintsOk: no UniqueConstraint('board_id', 'name'). *)
ColumnConstraintsNoUniqueName(others, c) ==
    /\ c.name # None /\ c.board_id # NoId
    /\ \A o \in others : o.id # c.id

(* NOT NULL name and board_id, UniqueConstraint('board_id', 'name') and    *)
(* UniqueConstraint('board_id', 'id') of the column table, for the row     *)
(* `c` written next to the other rows `others`.                            *)
ColumnConstraintsOk(others, c) ==
    /\ c.name # None /\ c.board_id # NoId
    /\ \A o \in others : ~(o.board_id = c.board_id /\ o.name = c.name)
    /\ \A o \in others : o.id # c.id

Column_exists_in_board_by_id(db, board_id, column_id) ==
    \E c \in db.columns : c.board_id = board_id /\ c.id = column_id

(* Mutant of Column_find_by_ids: the board is not checked first.           *)
Column_find_by_ids_NoBoardCheck(db, board_id, column_id) ==
    IF ~Column_exists_in_board_by_id(db, board_id, column_id)
    THEN Raise("NotFoundError", ColumnMsg(board_id, column_id), db)
    ELSE Ok(CHOOSE c \in db.columns : c.board_id = board_id /\ c.id = column_id, db)

Column_find_by_ids(db, board_id, column_id) ==
    IF ~Board_exists_by_id(db, board_id)
    THEN Raise("NotFoundError", BoardMsg(board_id), db)
    ELSE IF ~Column_exists_in_board_by_id(db, board_id, column_id)
    THEN Raise("NotFoundError", ColumnMsg(board_id, column_id), db)
    ELSE Ok(CHOOSE c \in db.columns : c.board_id = board_id /\ c.id = column_id, db)

(* Mutant of Column_delete: the column is looked up by its id alone.        *)
Column_delete_ByColumnIdOnly(db, board_id, column_id) ==
    IF ~\E c \in db.columns : c.id = column_id
    THEN Raise("NotFoundError", ColumnMsg(board_id, column_id), db)
    ELSE Ok(<<>>, CascadeColumns(db, {c \in db.columns : c.id = column_id}))

(* Mutant of Column_delete: the tasks of the column are left behind.       *)
Column_delete_KeepTasks(db, board_id, column_id) ==
    LET found == Column_find_by_ids(db, board_id, column_id) IN
    IF found.err # "ok" THEN found
    ELSE Ok(<<>>, [db EXCEPT !.columns = db.columns \ {found.val}])

Column_delete(db, board_id, column_id) ==
    LET found == Column_find_by_ids(db, board_id, column_id) IN
    IF found.err # "ok" THEN found
    ELSE Ok(<<>>, CascadeColumns(db, {found.val}))

Column_exists_in_board_by_name(db, self, board_id) ==
    \E c \in db.columns : c.board_id = board_id /\ c.name = self.name

(* Mutant of ColumnMerged: the id and the board_id of the patch are copied *)
(* as well when they are set.                                              *)
ColumnMergedCopiesIds(self, other) ==
    [id |-> IF other.id # NoId THEN other.id ELSE self.id,
     name |-> IF Truthy(other.name) THEN other.name ELSE self.name,
     board_id |-> IF other.board_id # NoId THEN other.board_id ELSE self.board_id]

(* The object `self` after the conditional assignment of merge.            *)
ColumnMerged(self, other) ==
    [self EXCEPT !.name = IF Truthy(other.name) THEN other.name ELSE self.name]

(* `self` is a stored column (callers obtain it from find_by_ids); the     *)
(* commit updates its row, which the table constraints may reject.         *)
Column_merge(db, self, other) ==
    LET merged == ColumnMerged(self, other) IN
    IF ~ColumnConstraintsOk(db.columns \ {self}, merged)
    THEN Raise("IntegrityError", "", db)
    ELSE Ok(merged, [db EXCEPT !.columns = (db.columns \ {self}) \cup {merged}])

(* Mutant of Column_save_to_board: the board is not checked.               *)
Column_save_to_board_NoBoardCheck(db, self, board_id) ==
    IF Column_exists_in_board_by_name(db, self, board_id)
    THEN Raise("AlreadyExistsError",
               "Column with name \"" \o self.name
                   \o "\" already exists in board with id " \o ToString(board_id), db)
    ELSE LET row == [id |-> NextId(db.columns), name |-> self.name,
                     board_id |-> board_id]
         IN IF ~ColumnConstraintsOk(db.columns, row)
            THEN Raise("IntegrityError", "", db)
            ELSE Ok(row, [db EXCEPT !.columns = db.columns \cup {row}])

(* self.board_id = board_id; DB.session.add(self); DB.session.commit():    *)
(* the INSERT, which the table constraints may reject; the foreign key to  *)
(* the board is not among them (SQLite does not enforce it).               *)
Column_save_to_board_commit(db, self, board_id) ==
    LET row == [id |-> NextId(db.columns), name |-> self.name,
                board_id |-> board_id]
    IN IF ~ColumnConstraintsOk(db.columns, row)
       THEN Raise("IntegrityError", "", db)
       ELSE Ok(row, [db EXCEPT !.columns = db.columns \cup {row}])

Column_save_to_board(db, self, board_id) ==
    IF ~Board_exists_by_id(db, board_id)
    THEN Raise("NotFoundError", BoardMsg(board_id), db)
    ELSE IF Column_exists_in_board_by_name(db, self, board_id)
    THEN Raise("AlreadyExistsError",
               "Column with name \"" \o self.name
                   \o "\" already exists in board with id " \o ToString(board_id), db)
    ELSE Column_save_to_board_commit(db, self, board_id)

(* ---------------------------------------------------------------------- *)
(* Task                                                                    *)
(* ---------------------------------------------------------------------- *)

(* NOT NULL name, board_id and column_id and                               *)
(* UniqueConstraint('column_id', 'name') of the task table.                *)
TaskConstraintsOk(others, t) ==
    /\ t.name # None /\ t.board_id # NoId /\ t.column_id # NoId
    /\ \A o \in others : ~(o.column_id = t.column_id /\ o.name = t.name)
    /\ \A o \in others : o.id # t.id

(* Mutant of Task_exists_in_column_by_name: the column is looked up by its *)
(* id alone, not within the board.                                         *)
Task_exists_in_column_by_name_AnyBoard(db, board_id, column_id, name) ==
    IF ~Board_exists_by_id(db, board_id)
    THEN Raise("NotFoundError", BoardMsg(board_id), db)
    ELSE IF ~\E c \in db.columns : c.id = column_id
    THEN Raise("NotFoundError", ColumnMsg(board_id, column_id) \o "\"", db)
    ELSE Ok(\E t \in db.tasks : /\ t.board_id = board_id
                                /\ t.column_id = column_id
                                /\ t.name = name, db)

Task_exists_in_column_by_name(db, board_id, column_id, name) ==
    IF ~Board_exists_by_id(db, board_id)
    THEN Raise("NotFoundError", BoardMsg(board_id), db)
    ELSE IF ~Column_exists_in_board_by_id(db, board_id, column_id)
    THEN Raise("NotFoundError", ColumnMsg(board_id, column_id) \o "\"", db)
    ELSE Ok(\E t \in db.tasks : /\ t.board_id = board_id
                                /\ t.column_id = column_id
                                /\ t.name = name, db)

(* Mutant of Task_save_to_board: the result of the name check is dropped.  *)
Task_save_to_board_NoNameCheck(db, self, board_id) ==
    LET found == Task_exists_in_column_by_name(db, board_id, self.column_id, self.name) IN
    IF found.err # "ok" THEN found
    ELSE LET row == [id |-> NextId(db.tasks), name |-> self.name,
                     description |-> self.description,
                     board_id |-> board_id, column_id |-> self.column_id,
                     user_id |-> self.user_id]
         IN IF ~TaskConstraintsOk(db.tasks, row)
            THEN Raise("IntegrityError", "", db)
            ELSE Ok(row, [db EXCEPT !.tasks = db.tasks \cup {row}])

Task_save_to_board(db, self, board_id) ==
    LET found == Task_exists_in_column_by_name(db, board_id, self.column_id, self.name) IN
    IF found.err # "ok" THEN found
    ELSE IF found.val
    THEN Raise("AlreadyExistsError",
               "Task with name \"" \o self.name
                   \o "\" already exists in column with id " \o ToString(self.column_id), db)
    ELSE LET row == [id |-> NextId(db.tasks), name |-> self.name,
                     description |-> self.description,
                     board_id |-> board_id, column_id |-> self.column_id,
                     user_id |-> self.user_id]
         IN IF ~TaskConstraintsOk(db.tasks, row)
            THEN Raise("IntegrityError", "", db)
            ELSE Ok(row, [db EXCEPT !.tasks = db.tasks \cup {row}])

(* ---------------------------------------------------------------------- *)
(* Error handlers and resources                                            *)
(* ---------------------------------------------------------------------- *)

(* A Flask-RESTful return value (body, status). *)
Response(status, body) == [status |-> status, body |-> body]

make_error_response(status, message) ==
    Response(status, [status |-> status, message |-> message])

(* The subclasses of ClientError: their instances carry `message`.         *)
ClientErrors ==
    {"InvalidDataError", "AlreadyExistsError", "UnauthorizedError",
     "NotFoundError", "InconsistentDataError"}

(* The classes an exception is an instance of, for `except errors`.        *)
ErrorClasses(e) ==
    IF e \in ClientErrors THEN {e, "ClientError"}
    ELSE IF e = "NoAuthorizationError" THEN {e, "JWTExtendedException"}
    ELSE IF e = "DecodeError" THEN {e, "PyJWTError"}
    ELSE {e}

(* handle_error(errors..., status, message) around a call whose outcome is *)
(* r: a listed error becomes an error response carrying the `message`      *)
(* argument, or the exception's own message when the argument is falsy     *)
(* and the exception has one; anything else passes through.                *)
(* Mutant of handle_error: the exception's own message is preferred to the *)
(* `message` argument.                                                     *)
handle_error_PrefersCaught(errors, status, message, r) ==
    IF r.err = "ok" \/ ErrorClasses(r.err) \cap errors = {} THEN r
    ELSE IF r.err \in ClientErrors
    THEN Ok(make_error_response(status, r.msg), r.db)
    ELSE Ok(make_error_response(status, message), r.db)

handle_error(errors, status, message, r) ==
    IF r.err = "ok" \/ ErrorClasses(r.err) \cap errors = {} THEN r
    ELSE IF ~Truthy(message) /\ r.err \in ClientErrors
    THEN Ok(make_error_response(status, r.msg), r.db)
    ELSE Ok(make_error_response(status, message), r.db)

JWT_ERROR_HANDLER(r) ==
    handle_error({"JWTExtendedException", "PyJWTError"}, 401,
                 "No valid token present", r)

BAD_REQUEST_ERROR_HANDLER(r) ==
    handle_error({"BadRequest", "ValidationError", "InvalidDataError"}, 400,
                 "Invalid request body", r)

(* Mutant of jwt_required: the token is not looked at.                     *)
jwt_required_Skipped(token, db, r) == r

(* jwt_required around a call whose outcome is r: the call is made only    *)
(* with a valid token; a request without a token raises                    *)
(* NoAuthorizationError, a token that does not decode raises DecodeError.  *)
jwt_required(token, db, r) ==
    IF token = "valid" THEN r
    ELSE IF token = "absent" THEN Raise("NoAuthorizationError", "", db)
    ELSE Raise("DecodeError", "", db)

(* method_decorators of Board, Column and Task: Flask-RESTful applies the  *)
(* list in order, so jwt_required is the innermost decorator and the       *)
(* NotFoundError handler the outermost.                                    *)
method_decorators(token, db, r) ==
    handle_error({"NotFoundError"}, 404, None,
        BAD_REQUEST_ERROR_HANDLER(JWT_ERROR_HANDLER(jwt_required(token, db, r))))

(* What the client receives: the value the decorated method returned, or   *)
(* the 500 response of the framework for an exception nobody handled.      *)
Respond(r) ==
    IF r.err = "ok" THEN r.val
    ELSE Response(500, [message |-> "Internal Server Error"])

Resource_Board_get(db, board_id) ==
    LET found == Board_find_by_id(db, board_id) IN
    IF found.err # "ok" THEN found ELSE Ok(Response(200, found.val), db)

(* `body` is the JSON body: `valid` tells whether the schema accepts it.   *)
Resource_Board_patch(db, board_id, body) ==
    IF ~body.valid THEN Raise("ValidationError", "", db)
    ELSE LET found == Board_find_by_id(db, board_id) IN
         IF found.err # "ok" THEN found
         ELSE LET merged == Board_merge(db, found.val,
                                [id |-> NoId, name |-> body.name,
                                 visibility |-> body.visibility])
              IN IF merged.err # "ok" THEN merged
                 ELSE Ok(Response(200, merged.val), merged.db)

Resource_Board_delete(db, board_id) ==
    LET deleted == Board_delete(db, board_id) IN
    IF deleted.err # "ok" THEN deleted ELSE Ok(Response(204, <<>>), deleted.db)

Resource_Column_get(db, board_id, column_id) ==
    LET found == Column_find_by_ids(db, board_id, column_id) IN
    IF found.err # "ok" THEN found ELSE Ok(Response(200, found.val), db)

Resource_Column_delete(db, board_id, column_id) ==
    LET deleted == Column_delete(db, board_id, column_id) IN
    IF deleted.err # "ok" THEN deleted ELSE Ok(Response(204, <<>>), deleted.db)

Resource_Column_patch(db, board_id, column_id, body) ==
    IF ~body.valid THEN Raise("ValidationError", "", db)
    ELSE LET found == Column_find_by_ids(db, board_id, column_id) IN
         IF found.err # "ok" THEN found
         ELSE LET merged == Column_merge(db, found.val,
                                [id |-> NoId, name |-> body.name,
                                 board_id |-> NoId])
              IN IF merged.err # "ok" THEN merged
                 ELSE Ok(Response(200, merged.val), merged.db)

(* domain.models.Task defines no find_by_ids, delete or merge: reading the *)
(* attribute raises AttributeError.                                        *)
Resource_Task_get(db, board_id, task_id) == Raise("AttributeError", "", db)

Resource_Task_delete(db, board_id, task_id) == Raise("AttributeError", "", db)

Resource_Task_patch(db, board_id, task_id, body) ==
    handle_error({"AlreadyExistsError", "InconsistentDataError"}, 409, None,
        IF ~body.valid THEN Raise("ValidationError", "", db)
        ELSE Raise("AttributeError", "", db))

(* Login.post: the login schema refuses a body without a password or       *)
(* without both the username and the email; an absent key is None.         *)
Resource_Login_post(us, body) ==
    BAD_REQUEST_ERROR_HANDLER(
        handle_error({"UnauthorizedError"}, 401, None,
            IF body.password = None \/ (body.username = None /\ body.email = None)
            THEN Raise("ValidationError", "", us)
            ELSE LET token == User_login(us, [name |-> body.username,
                                              email |-> body.email,
                                              password |-> body.password])
                 IN IF token.err # "ok" THEN token
                    ELSE Ok(Response(200, [token |-> token.val]), us)))

(* Register.post: the register schema refuses a body without a username,  *)
(* an email or a password ('' is a string and passes). The user the        *)
(* register schema builds goes through the `password` setter and is the    *)
(* one handed to User.register; the user the login schema builds keeps the *)
(* plaintext in `_password` and is handed to User.login only. A failure of *)
(* the login leaves the registered user committed.                         *)
(* Mutant of Resource_Register_post: the user of the login schema is the   *)
(* one registered.                                                         *)
Resource_Register_post_PersistsLoginUser(us, body) ==
    BAD_REQUEST_ERROR_HANDLER(
        handle_error({"AlreadyExistsError"}, 409, None,
            IF body.username = None \/ body.email = None \/ body.password = None
            THEN Raise("ValidationError", "", us)
            ELSE LET user_pwd_hash == User_init(body.username, body.email, body.password)
                     user_no_pwd_hash == [name |-> body.username, email |-> body.email,
                                          password |-> body.password]
                     saved == User_register(us, user_no_pwd_hash)
                 IN IF saved.err # "ok" THEN saved
                    ELSE LET token == User_login(saved.db, user_no_pwd_hash) IN
                         IF token.err # "ok" THEN Raise(token.err, token.msg, saved.db)
                         ELSE Ok(Response(201, [token |-> token.val]), saved.db)))

Resource_Register_post(us, body) ==
    BAD_REQUEST_ERROR_HANDLER(
        handle_error({"AlreadyExistsError"}, 409, None,
            IF body.username = None \/ body.email = None \/ body.password = None
            THEN Raise("ValidationError", "", us)
            ELSE LET user_pwd_hash == User_init(body.username, body.email, body.password)
                     user_no_pwd_hash == [name |-> body.username, email |-> body.email,
                                          password |-> body.password]
                     saved == User_register(us, user_pwd_hash)
                 IN IF saved.err # "ok" THEN saved
                    ELSE LET token == User_login(saved.db, user_no_pwd_hash) IN
                         IF token.err # "ok" THEN Raise(token.err, token.msg, saved.db)
                         ELSE Ok(Response(201, [token |-> token.val]), saved.db)))

(* The (user, capability) pairs granted on a board: Permissions and        *)
(* UserPermissions have no method body and no table, so none is stored.    *)
Grants(board_id) == {}

(* UserPermissions.put(self) without a body: called as the route calls it, *)
(* with the keyword arguments board_id and user_id, it raises TypeError;   *)
(* called without arguments it returns None.                               *)
Resource_UserPermissions_put(db, view_args, body) ==
    IF view_args # {} THEN Raise("TypeError", "", db)
    ELSE Ok(Response(200, None), db)

(* ---------------------------------------------------------------------- *)
(* The requests                                                            *)
(* ---------------------------------------------------------------------- *)

Store == [boards |-> boards, columns |-> columns, tasks |-> tasks]

Commit(db) ==
    /\ boards' = db.boards
    /\ columns' = db.columns
    /\ tasks' = db.tasks

(* The requests served at the same time, and what a request that is not   *)
(* inside a model method looks like. A request inside one records the      *)
(* method (op), the statement it executes next (pc) and its locals (arg).  *)
Procs == {1, 2}

Idle == [op |-> "idle", pc |-> "idle", arg |-> <<>>]

Init ==
    /\ users = {}
    /\ boards = {}
    /\ columns = {}
    /\ tasks = {}
    /\ last = [op |-> "init", err |-> "ok", msg |-> "", a |-> <<>>]
    /\ running = [p \in Procs |-> Idle]

(* Users built by the register schema or by User(...) directly.            *)
UserInputs ==
    [name : UserNames \cup {None, ""}, email : UserEmails \cup {None},
     password : Hashes \cup {None}]

DoUserSave ==
    \E u \in UserInputs :
        LET r == User_register(users, u) IN
        /\ Cardinality(users) < MaxUserId \/ r.err # "ok"
        /\ users' = r.db
        /\ last' = [op |-> "User.save", err |-> r.err, msg |-> r.msg, a |-> u]
        /\ UNCHANGED <<boards, columns, tasks, running>>

(* Plaintext passwords a client submits. *)
Passwords == {"pwd", "bad"}

(* User.register of a user built with the `password` keyword: each of the  *)
(* name, the email and the plaintext may be absent (None) or ''.           *)
DoUserRegister ==
    \E name \in Names \cup {None, ""}, email \in Emails \cup {None, ""},
       plain \in Passwords \cup {None, ""} :
        LET u == User_init(name, email, plain)
            r == User_register(users, u)
        IN
        /\ Cardinality(users) < MaxUserId \/ r.err # "ok"
        /\ users' = r.db
        /\ last' = [op |-> "User.register", err |-> r.err, msg |-> r.msg,
                    a |-> [name |-> name, email |-> email, password |-> plain,
                           id |-> NextId(users)]]
        /\ UNCHANGED <<boards, columns, tasks, running>>

(* User.login of a user as the login schema builds it: the plaintext is    *)
(* kept, the name or the email may be absent.                              *)
DoUserLogin ==
    \E name \in Names \cup {None}, email \in Emails \cup {None},
       plain \in Passwords \cup {""} :
        LET user == [name |-> name, email |-> email, password |-> plain]
            r == User_login(users, user)
        IN
        /\ Truthy(name) \/ Truthy(email)
        /\ last' = [op |-> "User.login", err |-> r.err, msg |-> r.msg,
                    a |-> [name |-> name, email |-> email, password |-> plain,
                           token |-> r.val]]
        /\ UNCHANGED <<users, boards, columns, tasks, running>>

(* POST /auth/login with a JSON body whose keys may be absent (None).      *)
DoLoginPost ==
    \E username \in Names \cup {None}, email \in Emails \cup {None},
       password \in Passwords \cup {None, ""} :
        LET body == [username |-> username, email |-> email, password |-> password]
            r == Resource_Login_post(users, body)
        IN
        /\ last' = [op |-> "Login.post", err |-> r.err, msg |-> r.msg,
                    a |-> [body |-> body, resp |-> Respond(r)]]
        /\ UNCHANGED <<users, boards, columns, tasks, running>>

(* POST /auth/register with a JSON body whose keys may be absent (None).   *)
DoRegisterPost ==
    \E username \in Names \cup {None, ""}, email \in Emails \cup {None},
       password \in Passwords \cup {None, ""} :
        LET body == [username |-> username, email |-> email, password |-> password]
            r == Resource_Register_post(users, body)
        IN
        /\ Cardinality(users) < MaxUserId \/ r.db = users
        /\ users' = r.db
        /\ last' = [op |-> "Register.post", err |-> r.err, msg |-> r.msg,
                    a |-> [body |-> body, resp |-> Respond(r)]]
        /\ UNCHANGED <<boards, columns, tasks, running>>

(* Boards and board patches as the board schema (or Board(...)) builds     *)
(* them: the name and the visibility may be absent, the name may be ''.    *)
BoardInputs == [name : Names \cup {None, ""}, visibility : Visibilities \cup {None}]

BoardPatches ==
    [id : {NoId, MaxBoardId}, name : Names \cup {None, ""},
     visibility : Visibilities \cup {None}]

(* The boards and patches used where the columns and tasks are explored:   *)
(* neither reads a board's name or visibility.                             *)
TreeBoardInputs == [name : {"a", ""}, visibility : {"private"}]

TreeBoardPatches == [id : {NoId}, name : {None, "b"}, visibility : {None}]

DoBoardSave(inputs) ==
    \E b \in inputs :
        LET r == Board_save(Store, b) IN
        /\ NextId(boards) <= MaxBoardId \/ r.err # "ok"
        /\ Commit(r.db)
        /\ last' = [op |-> "Board.save", err |-> r.err, msg |-> r.msg,
                    a |-> [board |-> b, id |-> NextId(boards)]]
        /\ UNCHANGED <<users, running>>

DoBoardFindById ==
    \E id \in 1..MaxBoardId :
        LET r == Board_find_by_id(Store, id) IN
        /\ last' = [op |-> "Board.find_by_id", err |-> r.err, msg |-> r.msg,
                    a |-> [id |-> id, ret |-> r.val]]
        /\ UNCHANGED <<users, boards, columns, tasks, running>>

DoBoardDelete ==
    \E id \in 1..MaxBoardId :
        LET r == Board_delete(Store, id) IN
        /\ Commit(r.db)
        /\ last' = [op |-> "Board.delete", err |-> r.err, msg |-> r.msg,
                    a |-> [id |-> id,
                           columns |-> {c.id : c \in columns \ r.db.columns},
                           tasks |-> {t.id : t \in tasks \ r.db.tasks}]]
        /\ UNCHANGED <<users, running>>

DoBoardMerge(patches) ==
    \E self \in boards, other \in patches :
        LET r == Board_merge(Store, self, other) IN
        /\ Commit(r.db)
        /\ last' = [op |-> "Board.merge", err |-> r.err, msg |-> r.msg,
                    a |-> [self |-> self, other |-> other]]
        /\ UNCHANGED <<users, running>>

DoColumnFindByIds ==
    \E board_id \in 1..MaxBoardId, column_id \in 1..MaxColumnId :
        LET r == Column_find_by_ids(Store, board_id, column_id) IN
        /\ last' = [op |-> "Column.find_by_ids", err |-> r.err, msg |-> r.msg,
                    a |-> [board_id |-> board_id, column_id |-> column_id,
                           ret |-> r.val]]
        /\ UNCHANGED <<users, boards, columns, tasks, running>>

DoColumnDelete ==
    \E board_id \in 1..MaxBoardId, column_id \in 1..MaxColumnId :
        LET r == Column_delete(Store, board_id, column_id) IN
        /\ Commit(r.db)
        /\ last' = [op |-> "Column.delete", err |-> r.err, msg |-> r.msg,
                    a |-> [board_id |-> board_id, column_id |-> column_id,
                           tasks |-> {t.id : t \in tasks \ r.db.tasks}]]
        /\ UNCHANGED <<users, running>>

(* Column patches: the schema loads the name only, Column(...) may carry   *)
(* an id and a board_id as well.                                           *)
ColumnPatches ==
    [id : {NoId, MaxColumnId}, name : Names \cup {None, ""},
     board_id : {NoId, MaxBoardId}]

DoColumnMerge ==
    \E self \in columns, other \in ColumnPatches :
        LET r == Column_merge(Store, self, other) IN
        /\ Commit(r.db)
        /\ last' = [op |-> "Column.merge", err |-> r.err, msg |-> r.msg,
                    a |-> [self |-> self, other |-> other]]
        /\ UNCHANGED <<users, running>>

ColumnInputs == [name : Names]

DoColumnSaveToBoard ==
    \E c \in ColumnInputs, board_id \in 1..MaxBoardId :
        LET r == Column_save_to_board(Store, c, board_id) IN
        /\ NextId(columns) <= MaxColumnId \/ r.err # "ok"
        /\ Commit(r.db)
        /\ last' = [op |-> "Column.save_to_board", err |-> r.err, msg |-> r.msg,
                    a |-> [name |-> c.name, board_id |-> board_id,
                           id |-> NextId(columns)]]
        /\ UNCHANGED <<users, running>>

TaskInputs ==
    [name : Names, description : {None}, column_id : 1..MaxColumnId,
     user_id : {NoId}]

(* Tasks of one name, with or without a user assigned.                     *)
AssignedTaskInputs ==
    [name : {"a"}, description : {None}, column_id : 1..MaxColumnId,
     user_id : {NoId} \cup (1..MaxUserId)]

DoTaskSaveToBoard(inputs) ==
    \E t \in inputs, board_id \in 1..MaxBoardId :
        LET r == Task_save_to_board(Store, t, board_id) IN
        /\ NextId(tasks) <= MaxTaskId \/ r.err # "ok"
        /\ Commit(r.db)
        /\ last' = [op |-> "Task.save_to_board", err |-> r.err, msg |-> r.msg,
                    a |-> [task |-> t, board_id |-> board_id,
                           id |-> NextId(tasks)]]
        /\ UNCHANGED <<users, running>>

(* The Authorization header: a valid token, none, or one that does not     *)
(* decode.                                                                 *)
Tokens == {"valid", "absent", "malformed"}

(* JSON bodies of PATCH: accepted by the schema or not; a board or column  *)
(* body may carry a name. The requests record `valid`, which is TRUE for   *)
(* the methods that read no body.                                          *)
BoardBodies == [valid : BOOLEAN, name : {None, "b"}, visibility : {None}]

ColumnBodies == [valid : BOOLEAN, name : {None, "b"}]

(* A task body may name the column the task is moved to.                   *)
TaskBodies == [valid : BOOLEAN, column_id : {NoId} \cup (1..MaxColumnId)]

RequestBoardGet ==
    \E token \in Tokens, board_id \in 1..MaxBoardId :
        LET r == method_decorators(token, Store, Resource_Board_get(Store, board_id)) IN
        /\ Commit(r.db)
        /\ last' = [op |-> "resources.Board.get", err |-> r.err, msg |-> r.msg,
                    a |-> [token |-> token, valid |-> TRUE, board_id |-> board_id,
                           resp |-> Respond(r)]]
        /\ UNCHANGED <<users, running>>

RequestBoardPatch ==
    \E token \in Tokens, board_id \in 1..MaxBoardId, body \in BoardBodies :
        LET r == method_decorators(token, Store,
                     Resource_Board_patch(Store, board_id, body)) IN
        /\ Commit(r.db)
        /\ last' = [op |-> "resources.Board.patch", err |-> r.err, msg |-> r.msg,
                    a |-> [token |-> token, valid |-> body.valid, board_id |-> board_id,
                           resp |-> Respond(r)]]
        /\ UNCHANGED <<users, running>>

RequestBoardDelete ==
    \E token \in Tokens, board_id \in 1..MaxBoardId :
        LET r == method_decorators(token, Store,
                     Resource_Board_delete(Store, board_id)) IN
        /\ Commit(r.db)
        /\ last' = [op |-> "resources.Board.delete", err |-> r.err, msg |-> r.msg,
                    a |-> [token |-> token, valid |-> TRUE, board_id |-> board_id,
                           resp |-> Respond(r)]]
        /\ UNCHANGED <<users, running>>

RequestColumnGet ==
    \E token \in Tokens, board_id \in 1..MaxBoardId, column_id \in 1..MaxColumnId :
        LET r == method_decorators(token, Store,
                     Resource_Column_get(Store, board_id, column_id)) IN
        /\ Commit(r.db)
        /\ last' = [op |-> "resources.Column.get", err |-> r.err, msg |-> r.msg,
                    a |-> [token |-> token, valid |-> TRUE, board_id |-> board_id,
                           column_id |-> column_id, resp |-> Respond(r)]]
        /\ UNCHANGED <<users, running>>

RequestColumnDelete ==
    \E token \in Tokens, board_id \in 1..MaxBoardId, column_id \in 1..MaxColumnId :
        LET r == method_decorators(token, Store,
                     Resource_Column_delete(Store, board_id, column_id)) IN
        /\ Commit(r.db)
        /\ last' = [op |-> "resources.Column.delete", err |-> r.err, msg |-> r.msg,
                    a |-> [token |-> token, valid |-> TRUE, board_id |-> board_id,
                           column_id |-> column_id, resp |-> Respond(r)]]
        /\ UNCHANGED <<users, running>>

RequestColumnPatch ==
    \E token \in Tokens, board_id \in 1..MaxBoardId, column_id \in 1..MaxColumnId,
       body \in ColumnBodies :
        LET r == method_decorators(token, Store,
                     Resource_Column_patch(Store, board_id, column_id, body)) IN
        /\ Commit(r.db)
        /\ last' = [op |-> "resources.Column.patch", err |-> r.err, msg |-> r.msg,
                    a |-> [token |-> token, valid |-> body.valid, board_id |-> board_id,
                           column_id |-> column_id, resp |-> Respond(r)]]
        /\ UNCHANGED <<users, running>>

RequestTaskGet ==
    \E token \in Tokens, board_id \in 1..MaxBoardId, task_id \in 1..MaxTaskId :
        LET r == method_decorators(token, Store,
                     Resource_Task_get(Store, board_id, task_id)) IN
        /\ Commit(r.db)
        /\ last' = [op |-> "resources.Task.get", err |-> r.err, msg |-> r.msg,
                    a |-> [token |-> token, valid |-> TRUE, board_id |-> board_id,
                           task_id |-> task_id, resp |-> Respond(r)]]
        /\ UNCHANGED <<users, running>>

RequestTaskDelete ==
    \E token \in Tokens, board_id \in 1..MaxBoardId, task_id \in 1..MaxTaskId :
        LET r == method_decorators(token, Store,
                     Resource_Task_delete(Store, board_id, task_id)) IN
        /\ Commit(r.db)
        /\ last' = [op |-> "resources.Task.delete", err |-> r.err, msg |-> r.msg,
                    a |-> [token |-> token, valid |-> TRUE, board_id |-> board_id,
                           task_id |-> task_id, resp |-> Respond(r)]]
        /\ UNCHANGED <<users, running>>

RequestTaskPatch ==
    \E token \in Tokens, board_id \in 1..MaxBoardId, task_id \in 1..MaxTaskId,
       body \in TaskBodies :
        LET r == method_decorators(token, Store,
                     Resource_Task_patch(Store, board_id, task_id, body)) IN
        /\ Commit(r.db)
        /\ last' = [op |-> "resources.Task.patch", err |-> r.err, msg |-> r.msg,
                    a |-> [token |-> token, valid |-> body.valid, board_id |-> board_id,
                           task_id |-> task_id, column_id |-> body.column_id,
                           resp |-> Respond(r)]]
        /\ UNCHANGED <<users, running>>

(* The permissions the documentation of /permissions lists, and the names  *)
(* a client may send: those and one that is not listed.                    *)
PermissionCatalog == {"COLUMN_CREATE", "COLUMN_DELETE", "TASK_CREATE"}

PermissionNames == PermissionCatalog \cup {"NOT_A_REAL_CAP"}

(* PUT /boards/<board_id>/permissions/<user_id>: the route passes both ids *)
(* as keyword arguments; a direct call passes none. UserPermissions has no *)
(* method_decorators.                                                      *)
RequestUserPermissionsPut ==
    \E board_id \in 1..MaxBoardId, user_id \in 1..MaxUserId,
       names \in SUBSET PermissionNames,
       view_args \in {{}, {"board_id", "user_id"}} :
        LET r == Resource_UserPermissions_put(Store, view_args, names) IN
        /\ Commit(r.db)
        /\ last' = [op |-> "resources.UserPermissions.put", err |-> r.err,
                    msg |-> r.msg,
                    a |-> [board_id |-> board_id, user_id |-> user_id,
                           names |-> names, view_args |-> view_args,
                           grants |-> Grants(board_id),
                           resp |-> Respond(r)]]
        /\ UNCHANGED <<users, running>>

(* handle_error applied to a function: the errors listed, the status and   *)
(* the message given (None when the keyword is not passed), and what the   *)
(* function does: it returns a value or raises an error, which carries a   *)
(* `message` attribute when it is a ClientError.                           *)
HandleErrorLists ==
    {{"NotFoundError"}, {"ClientError"}, {"ValidationError", "InvalidDataError"}}

HandleErrorMessages == {None, "", "caught"}

HandleErrorRaised == {"NotFoundError", "InvalidDataError", "ValidationError", "KeyError"}

DoHandleError ==
    \E errors \in HandleErrorLists, status \in {400, 404, 409},
       message \in HandleErrorMessages, raised \in HandleErrorRaised \cup {"ok"} :
        LET returned == Response(200, [result |-> "success"])
            fun == IF raised = "ok" THEN Ok(returned, Store)
                   ELSE Raise(raised, IF raised \in ClientErrors THEN "error" ELSE "",
                              Store)
            r == handle_error(errors, status, message, fun)
        IN
        /\ last' = [op |-> "handle_error", err |-> r.err, msg |-> r.msg,
                    a |-> [errors |-> errors, status |-> status, message |-> message,
                           raised |-> raised, raised_msg |-> fun.msg,
                           returned |-> returned, ret |-> r.val]]
        /\ UNCHANGED <<users, boards, columns, tasks, running>>

(* ---------------------------------------------------------------------- *)
(* Interleaved requests: one action per statement that reads or writes the *)
(* database, so that another request may commit between two of them.       *)
(* ---------------------------------------------------------------------- *)

(* Users with every field present, as the register schema builds them.     *)
RaceUserInputs == [name : Names, email : Emails, password : Hashes]

(* User.save, lines 103-107: the field test and exists().                  *)
UserSaveCheck(p) ==
    /\ running[p] = Idle
    /\ \E u \in RaceUserInputs :
          LET r == User_save_check(users, u) IN
          /\ running' = [running EXCEPT ![p] =
                            IF r.err = "ok"
                            THEN [op |-> "User.save", pc |-> "commit", arg |-> u]
                            ELSE Idle]
          /\ last' = [op |-> "User.save:check", err |-> r.err, msg |-> r.msg,
                      a |-> [proc |-> p, user |-> u]]
    /\ UNCHANGED <<users, boards, columns, tasks>>

(* User.save, lines 109-110: add and commit.                               *)
UserSaveCommit(p) ==
    /\ running[p].op = "User.save" /\ running[p].pc = "commit"
    /\ LET u == running[p].arg
           r == User_save_commit(users, u)
       IN
       /\ Cardinality(users) < MaxUserId \/ r.err # "ok"
       /\ users' = r.db
       /\ last' = [op |-> "User.save:commit", err |-> r.err, msg |-> r.msg,
                   a |-> [proc |-> p, user |-> u]]
    /\ running' = [running EXCEPT ![p] = Idle]
    /\ UNCHANGED <<boards, columns, tasks>>

(* Board.delete, lines 233-234: exists_by_id.                              *)
BoardDeleteCheck(p) ==
    /\ running[p] = Idle
    /\ \E id \in 1..MaxBoardId :
          LET found == Board_exists_by_id(Store, id) IN
          /\ running' = [running EXCEPT ![p] =
                            IF found
                            THEN [op |-> "Board.delete", pc |-> "fetch",
                                  arg |-> [id |-> id]]
                            ELSE Idle]
          /\ last' = [op |-> "Board.delete:check",
                      err |-> IF found THEN "ok" ELSE "NotFoundError",
                      msg |-> IF found THEN "" ELSE BoardMsg(id),
                      a |-> [proc |-> p, id |-> id]]
    /\ UNCHANGED <<users, boards, columns, tasks>>

(* Board.delete, line 236: the fetch with one().                           *)
BoardDeleteFetch(p) ==
    /\ running[p].op = "Board.delete" /\ running[p].pc = "fetch"
    /\ LET id == running[p].arg.id
           r == Board_delete_fetch(Store, id)
       IN
       /\ running' = [running EXCEPT ![p] =
                         IF r.err = "ok"
                         THEN [op |-> "Board.delete", pc |-> "delete",
                               arg |-> [id |-> id, board |-> r.val]]
                         ELSE Idle]
       /\ last' = [op |-> "Board.delete:fetch", err |-> r.err, msg |-> r.msg,
                   a |-> [proc |-> p, id |-> id]]
    /\ UNCHANGED <<users, boards, columns, tasks>>

(* Board.delete, line 237: DB.session.delete(board).                       *)
BoardDeleteMark(p) ==
    /\ running[p].op = "Board.delete" /\ running[p].pc = "delete"
    /\ LET id == running[p].arg.id
           marked == Board_delete_mark(Store, running[p].arg.board)
       IN
       /\ running' = [running EXCEPT ![p] =
                         [op |-> "Board.delete", pc |-> "commit",
                          arg |-> [id |-> id, marked |-> marked]]]
       /\ last' = [op |-> "Board.delete:delete", err |-> "ok", msg |-> "",
                   a |-> [proc |-> p, id |-> id]]
    /\ UNCHANGED <<users, boards, columns, tasks>>

(* Board.delete, line 238: DB.session.commit().                            *)
BoardDeleteCommit(p) ==
    /\ running[p].op = "Board.delete" /\ running[p].pc = "commit"
    /\ LET id == running[p].arg.id
           r == Board_delete_commit(Store, running[p].arg.marked)
       IN
       /\ Commit(r.db)
       /\ last' = [op |-> "Board.delete:commit", err |-> r.err, msg |-> r.msg,
                   a |-> [proc |-> p, id |-> id,
                          boards |-> {b.id : b \in boards \ r.db.boards},
                          columns |-> {c.id : c \in columns \ r.db.columns}]]
    /\ running' = [running EXCEPT ![p] = Idle]
    /\ UNCHANGED users

(* Column.save_to_board, lines 407-408: Board.exists_by_id.                *)
ColumnSaveBoardCheck(p) ==
    /\ running[p] = Idle
    /\ \E c \in ColumnInputs, board_id \in 1..MaxBoardId :
          LET found == Board_exists_by_id(Store, board_id) IN
          /\ running' = [running EXCEPT ![p] =
                            IF found
                            THEN [op |-> "Column.save_to_board", pc |-> "name",
                                  arg |-> [self |-> c, board_id |-> board_id]]
                            ELSE Idle]
          /\ last' = [op |-> "Column.save_to_board:board",
                      err |-> IF found THEN "ok" ELSE "NotFoundError",
                      msg |-> IF found THEN "" ELSE BoardMsg(board_id),
                      a |-> [proc |-> p, name |-> c.name, board_id |-> board_id]]
    /\ UNCHANGED <<users, boards, columns, tasks>>

(* Column.save_to_board, lines 410-413: exists_in_board_by_name.           *)
ColumnSaveNameCheck(p) ==
    /\ running[p].op = "Column.save_to_board" /\ running[p].pc = "name"
    /\ LET self == running[p].arg.self
           board_id == running[p].arg.board_id
           found == Column_exists_in_board_by_name(Store, self, board_id)
       IN
       /\ running' = [running EXCEPT ![p] =
                         IF found THEN Idle ELSE [running[p] EXCEPT !.pc = "commit"]]
       /\ last' = [op |-> "Column.save_to_board:name",
                   err |-> IF found THEN "AlreadyExistsError" ELSE "ok",
                   msg |-> IF found
                           THEN "Column with name \"" \o self.name
                                    \o "\" already exists in board with id "
                                    \o ToString(board_id)
                           ELSE "",
                   a |-> [proc |-> p, name |-> self.name, board_id |-> board_id]]
    /\ UNCHANGED <<users, boards, columns, tasks>>

(* Column.save_to_board, lines 415-417: board_id, add and commit.          *)
ColumnSaveCommit(p) ==
    /\ running[p].op = "Column.save_to_board" /\ running[p].pc = "commit"
    /\ LET self == running[p].arg.self
           board_id == running[p].arg.board_id
           r == Column_save_to_board_commit(Store, self, board_id)
       IN
       /\ NextId(columns) <= MaxColumnId \/ r.err # "ok"
       /\ Commit(r.db)
       /\ last' = [op |-> "Column.save_to_board:commit", err |-> r.err, msg |-> r.msg,
                   a |-> [proc |-> p, name |-> self.name, board_id |-> board_id,
                          id |-> NextId(columns)]]
    /\ running' = [running EXCEPT ![p] = Idle]
    /\ UNCHANGED users

(* Boards, columns and tasks. *)
Next ==
    \/ DoBoardSave(TreeBoardInputs)
    \/ DoBoardFindById
    \/ DoBoardDelete
    \/ DoBoardMerge(TreeBoardPatches)
    \/ DoColumnFindByIds
    \/ DoColumnDelete
    \/ DoColumnMerge
    \/ DoColumnSaveToBoard
    \/ DoTaskSaveToBoard(TaskInputs)

Spec == Init /\ [][Next]_vars

(* Boards and columns, without tasks. *)
NextColumn ==
    \/ DoBoardSave(TreeBoardInputs)
    \/ DoBoardDelete
    \/ DoColumnFindByIds
    \/ DoColumnDelete
    \/ DoColumnMerge
    \/ DoColumnSaveToBoard

SpecColumn == Init /\ [][NextColumn]_vars

(* Boards alone, with every kind of board and of patch. *)
NextBoard ==
    \/ DoBoardSave(BoardInputs)
    \/ DoBoardFindById
    \/ DoBoardDelete
    \/ DoBoardMerge(BoardPatches)

SpecBoard == Init /\ [][NextBoard]_vars

(* Users alone. *)
NextUser == DoUserSave

SpecUser == Init /\ [][NextUser]_vars

(* The entity endpoints, over the boards, at most one column and at most   *)
(* one task that the domain operations stored.                             *)
NextApi ==
    \/ DoBoardSave(TreeBoardInputs)
    \/ (columns = {} /\ DoColumnSaveToBoard)
    \/ (tasks = {} /\ DoTaskSaveToBoard(TaskInputs))
    \/ RequestBoardGet
    \/ RequestBoardPatch
    \/ RequestBoardDelete
    \/ RequestColumnGet
    \/ RequestColumnDelete
    \/ RequestColumnPatch
    \/ RequestTaskGet
    \/ RequestTaskDelete
    \/ RequestTaskPatch

SpecApi == Init /\ [][NextApi]_vars

(* The permission endpoint, over stored boards. *)
NextPerms ==
    \/ DoBoardSave(TreeBoardInputs)
    \/ RequestUserPermissionsPut

SpecPerms == Init /\ [][NextPerms]_vars

(* The error-handling decorator alone. *)
NextHandleError == DoHandleError

SpecHandleError == Init /\ [][NextHandleError]_vars

(* Registration and login of users. *)
NextAuth ==
    \/ DoUserRegister
    \/ DoUserLogin
    \/ DoLoginPost

SpecAuth == Init /\ [][NextAuth]_vars

(* The two endpoints of /auth. *)
NextRegister ==
    \/ DoRegisterPost
    \/ DoLoginPost

SpecRegister == Init /\ [][NextRegister]_vars

(* Two requests that register users at the same time. *)
NextUserRace ==
    \/ \E p \in Procs : UserSaveCheck(p)
    \/ \E p \in Procs : UserSaveCommit(p)

SpecUserRace == Init /\ [][NextUserRace]_vars

(* Two requests that each save a column to a board or delete a board, at   *)
(* the same time, while boards are saved.                                  *)
NextBoardRace ==
    \/ DoBoardSave(TreeBoardInputs)
    \/ \E p \in Procs : ColumnSaveBoardCheck(p)
    \/ \E p \in Procs : ColumnSaveNameCheck(p)
    \/ \E p \in Procs : ColumnSaveCommit(p)
    \/ \E p \in Procs : BoardDeleteCheck(p)
    \/ \E p \in Procs : BoardDeleteFetch(p)
    \/ \E p \in Procs : BoardDeleteMark(p)
    \/ \E p \in Procs : BoardDeleteCommit(p)

SpecBoardRace == Init /\ [][NextBoardRace]_vars

(* Tasks with a user assigned, over the boards, at most one column and at  *)
(* most one registered user.                                               *)
NextAssign ==
    \/ DoBoardSave(TreeBoardInputs)
    \/ (columns = {} /\ DoColumnSaveToBoard)
    \/ DoTaskSaveToBoard(AssignedTaskInputs)
    \/ (users = {} /\ DoUserRegister)

SpecAssign == Init /\ [][NextAssign]_vars

(* ---------------------------------------------------------------------- *)
(* Properties                                                              *)
(* ---------------------------------------------------------------------- *)

(* The user has every required field (save gets past InvalidDataError).    *)
UserComplete(u) == Truthy(u.name) /\ Truthy(u.password) /\ Truthy(u.email)

UsersUnique ==
    \A s, t \in users : s # t => s.name # t.name /\ s.email # t.email /\ s.id # t.id

(* C1: saving a user whose name or whose email is that of a stored user    *)
(* fails with AlreadyExistsError and stores nothing, and so no two stored  *)
(* users share a name or an email.                                         *)
C1_DuplicateUserRejected ==
    /\ []UsersUnique
    /\ [][(/\ last'.op = "User.save"
           /\ UserComplete(last'.a)
           /\ \E s \in users : s.name = last'.a.name \/ s.email = last'.a.email)
          => (last'.err = "AlreadyExistsError" /\ users' = users)]_vars

(* C2: Board.delete(id) of a stored board removes the board, its columns   *)
(* and the tasks of those columns, after which the board and its former    *)
(* columns are not found; on an absent id it fails with NotFoundError and  *)
(* removes nothing.                                                        *)
C2_BoardDeleteCascades ==
    [][last'.op = "Board.delete" =>
        LET id == last'.a.id
            owned == {c \in columns : c.board_id = id}
        IN IF \E b \in boards : b.id = id
           THEN /\ last'.err = "ok"
                /\ ~\E b \in boards' : b.id = id
                /\ ~\E c \in columns' : c.board_id = id
                /\ columns' \cap owned = {}
                /\ ~\E t \in tasks' : \E c \in owned : t.column_id = c.id
                /\ Board_find_by_id(Store', id).err = "NotFoundError"
                /\ \A c \in owned :
                       Column_find_by_ids(Store', id, c.id).err = "NotFoundError"
           ELSE /\ last'.err = "NotFoundError"
                /\ UNCHANGED <<users, boards, columns, tasks>>]_vars

(* A board was deleted together with a column and a task of that column.   *)
C2_Witness ==
    /\ last.op = "Board.delete" /\ last.err = "ok"
    /\ last.a.columns # {} /\ last.a.tasks # {}

(* C3: every stored column belongs to a stored board, and every stored     *)
(* task to a stored column of the task's own board.                        *)
C3_Ownership ==
    /\ \A c \in columns : \E b \in boards : b.id = c.board_id
    /\ \A t \in tasks :
           \E c \in columns : c.id = t.column_id /\ c.board_id = t.board_id

(* A column with a task was deleted while other columns or tasks remain.   *)
C3_Witness ==
    /\ last.op \in {"Board.delete", "Column.delete"} /\ last.err = "ok"
    /\ last.a.tasks # {}
    /\ columns # {}

(* C4: no two stored columns of one board have the same name, also after   *)
(* Column.merge renames a column to a name taken in its board.             *)
C4_ColumnNamesUnique ==
    \A c, d \in columns : (c.board_id = d.board_id /\ c.name = d.name) => c = d

(* A rename to the name of another column of the same board was tried and  *)
(* rejected by the table's unique constraint.                              *)
C4_Witness ==
    /\ last.op = "Column.merge" /\ last.err = "IntegrityError"
    /\ \E d \in columns : /\ d # last.a.self
                          /\ d.board_id = last.a.self.board_id
                          /\ d.name = last.a.other.name

(* C5: Column.save_to_board fails with NotFoundError when the board is     *)
(* absent, with AlreadyExistsError when the board has a column of that     *)
(* name, storing nothing in both cases; otherwise it stores the column     *)
(* with the given board id.                                                *)
C5_ColumnSaveToBoard ==
    [][last'.op = "Column.save_to_board" =>
        LET a == last'.a IN
        IF ~\E b \in boards : b.id = a.board_id
        THEN /\ last'.err = "NotFoundError"
             /\ last'.msg = BoardMsg(a.board_id)
             /\ UNCHANGED <<users, boards, columns, tasks>>
        ELSE IF \E c \in columns : c.board_id = a.board_id /\ c.name = a.name
        THEN /\ last'.err = "AlreadyExistsError"
             /\ UNCHANGED <<users, boards, columns, tasks>>
        ELSE /\ last'.err = "ok"
             /\ ~\E c \in columns : c.id = a.id
             /\ columns' = columns \cup
                    {[id |-> a.id, name |-> a.name, board_id |-> a.board_id]}
             /\ UNCHANGED <<users, boards, tasks>>]_vars

(* A column was refused because its board has a column of that name, while *)
(* another board is stored too.                                            *)
C5_Witness ==
    /\ last.op = "Column.save_to_board" /\ last.err = "AlreadyExistsError"
    /\ \E c \in columns : c.board_id = last.a.board_id /\ c.name = last.a.name
    /\ Cardinality(boards) > 1

(* C6: Task.save_to_board into a column of the given board fails with      *)
(* AlreadyExistsError, storing nothing, when that column has a task of the *)
(* same name; otherwise it stores the task with the given board id and the *)
(* task's column id.                                                       *)
C6_TaskSaveToBoard ==
    [][(/\ last'.op = "Task.save_to_board"
        /\ \E b \in boards : b.id = last'.a.board_id
        /\ \E c \in columns : /\ c.id = last'.a.task.column_id
                              /\ c.board_id = last'.a.board_id)
       => LET a == last'.a IN
          IF \E t \in tasks : /\ t.board_id = a.board_id
                              /\ t.column_id = a.task.column_id
                              /\ t.name = a.task.name
          THEN /\ last'.err = "AlreadyExistsError"
               /\ UNCHANGED <<users, boards, columns, tasks>>
          ELSE /\ last'.err = "ok"
               /\ ~\E t \in tasks : t.id = a.id
               /\ tasks' = tasks \cup
                      {[id |-> a.id, name |-> a.task.name,
                        description |-> a.task.description,
                        board_id |-> a.board_id,
                        column_id |-> a.task.column_id,
                        user_id |-> a.task.user_id]}
               /\ UNCHANGED <<users, boards, columns>>]_vars

(* A task was refused because its column has a task of that name, while    *)
(* the same name was accepted in another column.                           *)
C6_Witness ==
    /\ last.op = "Task.save_to_board" /\ last.err = "AlreadyExistsError"
    /\ \E t \in tasks : /\ t.column_id = last.a.task.column_id
                        /\ t.name = last.a.task.name
    /\ \E t \in tasks : /\ t.column_id # last.a.task.column_id
                        /\ t.name = last.a.task.name

(* C7: Task.save_to_board fails with NotFoundError, never with             *)
(* AlreadyExistsError, and stores nothing when the board is absent or the  *)
(* column is not one of the board, even if that column holds a task of the *)
(* same name; the board is checked before the column.                      *)
C7_TaskNotFoundPrecedence ==
    [][(/\ last'.op = "Task.save_to_board"
        /\ \/ ~\E b \in boards : b.id = last'.a.board_id
           \/ ~\E c \in columns : /\ c.id = last'.a.task.column_id
                                  /\ c.board_id = last'.a.board_id)
       => LET a == last'.a IN
          /\ last'.err = "NotFoundError"
          /\ last'.msg = IF ~\E b \in boards : b.id = a.board_id
                         THEN BoardMsg(a.board_id)
                         ELSE ColumnMsg(a.board_id, a.task.column_id) \o "\""
          /\ UNCHANGED <<users, boards, columns, tasks>>]_vars

(* A task was refused for a column of another board although that column   *)
(* already holds a task of the same name.                                  *)
C7_Witness ==
    /\ last.op = "Task.save_to_board" /\ last.err = "NotFoundError"
    /\ \E b \in boards : b.id = last.a.board_id
    /\ \E t \in tasks : /\ t.column_id = last.a.task.column_id
                        /\ t.name = last.a.task.name
                        /\ t.board_id # last.a.board_id

(* The row of the board `self` after a merge, as the store holds it.       *)
StoredBoard(bs, id) == CHOOSE b \in bs : b.id = id

(* C8, as stated: Board.merge overwrites the name (the visibility) with    *)
(* the patch's whenever the patch's is not None, leaves it unchanged when  *)
(* it is None, never alters the id and commits the merged board.           *)
C8_MergeOverwritesNonNull ==
    [][last'.op = "Board.merge" =>
        LET self == last'.a.self
            other == last'.a.other
        IN /\ last'.err = "ok"
           /\ boards' = (boards \ {self}) \cup
                  {[id |-> self.id,
                    name |-> IF other.name # None THEN other.name ELSE self.name,
                    visibility |-> IF other.visibility # None
                                   THEN other.visibility ELSE self.visibility]}]_vars

(* C8, amended: Board.merge overwrites the name with the patch's when the  *)
(* patch's name is neither None nor the empty string, and the visibility   *)
(* when the patch's is not None; a field the patch gives as None, and a    *)
(* name it gives as '', leave the target's field unchanged; the id is      *)
(* never altered, and the merged board is what the store holds.            *)
C8_MergeOverwritesNonEmpty ==
    [][last'.op = "Board.merge" =>
        LET self == last'.a.self
            other == last'.a.other
        IN /\ last'.err = "ok"
           /\ boards' = (boards \ {self}) \cup
                  {[id |-> self.id,
                    name |-> IF other.name \notin {None, ""}
                             THEN other.name ELSE self.name,
                    visibility |-> IF other.visibility # None
                                   THEN other.visibility ELSE self.visibility]}
           /\ UNCHANGED <<users, columns, tasks>>]_vars

(* A merge changed the name and the visibility of a board under a patch    *)
(* that carries another id.                                                *)
C8_Witness ==
    /\ last.op = "Board.merge" /\ last.err = "ok"
    /\ last.a.other.id \notin {NoId, last.a.self.id}
    /\ \E b \in boards : /\ b.id = last.a.self.id
                         /\ b.name = last.a.other.name
                         /\ b.name # last.a.self.name
                         /\ b.visibility = last.a.other.visibility
                         /\ b.visibility # last.a.self.visibility

(* C9: Board.save fails with InvalidDataError, storing nothing, when the   *)
(* name is empty or absent or the visibility is absent; otherwise the      *)
(* board is stored and find_by_id on its id returns it; find_by_id on an   *)
(* id that is not stored fails with NotFoundError.                         *)
C9_BoardSaveAndFind ==
    [][/\ last'.op = "Board.save" =>
           LET b == last'.a.board IN
           IF b.name \in {None, ""} \/ b.visibility = None
           THEN /\ last'.err = "InvalidDataError"
                /\ UNCHANGED <<users, boards, columns, tasks>>
           ELSE LET row == [id |-> last'.a.id, name |-> b.name,
                            visibility |-> b.visibility]
                IN /\ last'.err = "ok"
                   /\ ~\E o \in boards : o.id = row.id
                   /\ boards' = boards \cup {row}
                   /\ Board_find_by_id(Store', row.id).err = "ok"
                   /\ Board_find_by_id(Store', row.id).val = row
       /\ last'.op = "Board.find_by_id" =>
           /\ UNCHANGED <<users, boards, columns, tasks>>
           /\ IF \E b \in boards : b.id = last'.a.id
              THEN /\ last'.err = "ok"
                   /\ last'.a.ret \in boards
                   /\ last'.a.ret.id = last'.a.id
              ELSE /\ last'.err = "NotFoundError"
                   /\ last'.msg = BoardMsg(last'.a.id)]_vars

(* A board was refused for its missing visibility while another board,     *)
(* saved before, is stored.                                                *)
C9_Witness ==
    /\ last.op = "Board.save" /\ last.err = "InvalidDataError"
    /\ Truthy(last.a.board.name) /\ last.a.board.visibility = None
    /\ boards # {}

(* C10: Column.find_by_ids fails with NotFoundError and the board message  *)
(* when the board is absent, whatever the column id; with NotFoundError    *)
(* and the distinct column message when the board has no such column;      *)
(* otherwise it returns that column.                                       *)
C10_ColumnFindByIds ==
    [][last'.op = "Column.find_by_ids" =>
        LET a == last'.a IN
        /\ UNCHANGED <<users, boards, columns, tasks>>
        /\ BoardMsg(a.board_id) # ColumnMsg(a.board_id, a.column_id)
        /\ IF ~\E b \in boards : b.id = a.board_id
           THEN /\ last'.err = "NotFoundError"
                /\ last'.msg = BoardMsg(a.board_id)
           ELSE IF ~\E c \in columns : c.id = a.column_id /\ c.board_id = a.board_id
           THEN /\ last'.err = "NotFoundError"
                /\ last'.msg = ColumnMsg(a.board_id, a.column_id)
           ELSE /\ last'.err = "ok"
                /\ a.ret \in columns
                /\ a.ret.id = a.column_id
                /\ a.ret.board_id = a.board_id]_vars

(* A column id that another board owns was looked up in a stored board.    *)
C10_Witness ==
    /\ last.op = "Column.find_by_ids" /\ last.err = "NotFoundError"
    /\ last.msg = ColumnMsg(last.a.board_id, last.a.column_id)
    /\ \E b \in boards : b.id = last.a.board_id
    /\ \E c \in columns : c.id = last.a.column_id

(* C11: column lookups and deletions are scoped to the board: for a stored *)
(* column c of board b1 and another stored board b2, Column.find_by_ids    *)
(* and Column.delete called with (b2, c) fail with NotFoundError and leave *)
(* c and every task of c stored.                                           *)
C11_ColumnBoardScoped ==
    [][last'.op \in {"Column.find_by_ids", "Column.delete"} =>
        LET a == last'.a IN
        \A c \in columns :
            (/\ c.id = a.column_id
             /\ c.board_id # a.board_id
             /\ \E b \in boards : b.id = a.board_id)
            => /\ last'.err = "NotFoundError"
               /\ c \in columns'
               /\ \A t \in tasks : t.column_id = c.id => t \in tasks']_vars

(* A column that holds a task was addressed for deletion through another   *)
(* stored board.                                                           *)
C11_Witness ==
    /\ last.op = "Column.delete" /\ last.err = "NotFoundError"
    /\ \E b \in boards : b.id = last.a.board_id
    /\ \E c \in columns :
          /\ c.id = last.a.column_id /\ c.board_id # last.a.board_id
          /\ \E t \in tasks : t.column_id = c.id

(* C12: Column.delete(board_id, column_id) of a column of that board       *)
(* removes the column and exactly the tasks with that column_id, after     *)
(* which Column.find_by_ids fails with NotFoundError; when the board is    *)
(* absent or has no such column it raises the NotFoundError of             *)
(* find_by_ids and removes nothing.                                        *)
C12_ColumnDeleteCascades ==
    [][last'.op = "Column.delete" =>
        LET a == last'.a
            after == [boards |-> boards', columns |-> columns', tasks |-> tasks']
        IN
        IF ~\E b \in boards : b.id = a.board_id
        THEN /\ last'.err = "NotFoundError" /\ last'.msg = BoardMsg(a.board_id)
             /\ UNCHANGED <<users, boards, columns, tasks>>
        ELSE IF ~\E c \in columns : c.id = a.column_id /\ c.board_id = a.board_id
        THEN /\ last'.err = "NotFoundError"
             /\ last'.msg = ColumnMsg(a.board_id, a.column_id)
             /\ UNCHANGED <<users, boards, columns, tasks>>
        ELSE /\ last'.err = "ok"
             /\ columns' = {c \in columns : c.id # a.column_id}
             /\ tasks' = {t \in tasks : t.column_id # a.column_id}
             /\ a.tasks = {t.id : t \in {u \in tasks : u.column_id = a.column_id}}
             /\ UNCHANGED <<users, boards>>
             /\ Column_find_by_ids(after, a.board_id, a.column_id).err
                    = "NotFoundError"]_vars

(* A column was deleted with a task of its own while a task of another     *)
(* column stays stored.                                                    *)
C12_Witness ==
    /\ last.op = "Column.delete" /\ last.err = "ok"
    /\ last.a.tasks # {}
    /\ \E t \in tasks : t.column_id # last.a.column_id

(* C13: users are never updated or deleted, and for a stored user          *)
(* registered with name n and password p, User.login with name n and       *)
(* password p returns a token issued for that user's id, while User.login  *)
(* with name n and any other password fails with UnauthorizedError.        *)
C13_LoginByName ==
    [][/\ \A u \in users : u \in users'
       /\ (last'.op = "User.login" /\ Truthy(last'.a.name)) =>
            \A u \in users, p \in Passwords \cup {""} :
                (u.name = last'.a.name /\ u.password = Hash(p)) =>
                    IF last'.a.password = p
                    THEN /\ last'.err = "ok"
                         /\ last'.a.token = [identity |-> u.id]
                    ELSE last'.err = "UnauthorizedError"]_vars

(* The second registered user logged in by name with its password while    *)
(* the first user has another password.                                    *)
C13_Witness ==
    /\ last.op = "User.login" /\ last.err = "ok"
    /\ Truthy(last.a.name)
    /\ \E u, v \in users :
          /\ u.name = last.a.name /\ u.id = 2 /\ v.id = 1
          /\ u.password = Hash(last.a.password)
          /\ v.password # u.password
          /\ last.a.token.identity = u.id

(* C15: User.login with the name absent looks the user up by email: when a *)
(* stored user has that email and the supplied password verifies against   *)
(* its stored hash, a token for that user's id is returned; when no stored *)
(* user has that email, the login fails with UnauthorizedError('Wrong      *)
(* username or password') and with no other error.                         *)
C15_LoginByEmail ==
    [][(last'.op = "User.login" /\ last'.a.name = None) =>
        LET a == last'.a IN
        IF \E u \in users : u.email = a.email
        THEN \A u \in users :
                (u.email = a.email /\ Verify(a.password, u.password)) =>
                    /\ last'.err = "ok"
                    /\ last'.a.token = [identity |-> u.id]
        ELSE /\ last'.err = "UnauthorizedError"
             /\ last'.msg = "Wrong username or password"]_vars

(* C16: User.register fails with InvalidDataError and stores nothing       *)
(* whenever the name, the email or the plaintext password is empty or      *)
(* absent, whether or not a stored user has the same name or email.        *)
C16_RegisterRequiresFields ==
    [][last'.op = "User.register" =>
        LET a == last'.a IN
        (~Truthy(a.name) \/ ~Truthy(a.email) \/ ~Truthy(a.password)) =>
            /\ last'.err = "InvalidDataError"
            /\ UNCHANGED <<users, boards, columns, tasks>>]_vars

(* C17: User.save of a user whose name is the name of a stored user A and  *)
(* whose email is the email of another stored user B fails with            *)
(* AlreadyExistsError and with no other error, and stores nothing.         *)
C17_SaveMatchingTwoUsers ==
    [][last'.op = "User.save" =>
        LET u == last'.a IN
        (/\ UserComplete(u)
         /\ \E A, B \in users : A # B /\ A.name = u.name /\ B.email = u.email)
        => /\ last'.err = "AlreadyExistsError"
           /\ UNCHANGED <<users, boards, columns, tasks>>]_vars

(* The stored users a login with this name and email is looked up among:   *)
(* by the name when one is given, by the email otherwise.                  *)
LoginMatches(us, name, email) ==
    IF Truthy(name) THEN {u \in us : u.name = name}
    ELSE {u \in us : u.email = email}

(* C14: a login whose identifier matches no stored user and a login for a  *)
(* stored user with a wrong password both fail with UnauthorizedError and  *)
(* the message 'Wrong username or password', and the login endpoint        *)
(* answers both with the same 401 body {status, message}.                  *)
C14_LoginFailureIndistinguishable ==
    [][/\ last'.op = "User.login" =>
            LET a == last'.a
                matches == LoginMatches(users, a.name, a.email)
            IN
            (matches = {} \/ \E u \in matches : ~Verify(a.password, u.password))
            => /\ last'.err = "UnauthorizedError"
               /\ last'.msg = "Wrong username or password"
       /\ (/\ last'.op = "Login.post"
           /\ last'.a.body.password # None
           /\ last'.a.body.username # None \/ last'.a.body.email # None) =>
            LET b == last'.a.body
                matches == LoginMatches(users, b.username, b.email)
            IN
            (matches = {} \/ \E u \in matches : ~Verify(b.password, u.password))
            => /\ last'.a.resp.status = 401
               /\ last'.a.resp.body =
                      [status |-> 401, message |-> "Wrong username or password"]
      ]_vars

(* The entity endpoint methods, and those among them that mutate.          *)
EntityOps ==
    {"resources.Board.get", "resources.Board.patch", "resources.Board.delete",
     "resources.Column.get", "resources.Column.patch", "resources.Column.delete",
     "resources.Task.get", "resources.Task.patch", "resources.Task.delete"}

MutatingOps ==
    {"resources.Board.patch", "resources.Board.delete",
     "resources.Column.patch", "resources.Column.delete",
     "resources.Task.patch", "resources.Task.delete"}

(* C19: on every Board, Column and Task entity endpoint method a request   *)
(* without a valid token is answered 401 with the body {status: 401,       *)
(* message: 'No valid token present'} and leaves the datastore unchanged,  *)
(* also when the addressed board does not exist (401 precedes 404).        *)
C19_AuthenticationFirst ==
    [][(last'.op \in EntityOps /\ last'.a.token # "valid") =>
        /\ last'.err = "ok"
        /\ last'.a.resp.status = 401
        /\ last'.a.resp.body = [status |-> 401, message |-> "No valid token present"]
        /\ UNCHANGED <<users, boards, columns, tasks>>]_vars

(* A delete of a board that is not stored was asked without a token while  *)
(* another board with a column and a task is stored.                       *)
C19_Witness ==
    /\ last.op = "resources.Board.delete" /\ last.a.token = "absent"
    /\ last.a.resp.status = 401
    /\ ~\E b \in boards : b.id = last.a.board_id
    /\ boards # {} /\ columns # {} /\ tasks # {}

(* The entity a request addresses is stored in the addressed board.        *)
Located(op, a) ==
    IF op \in {"resources.Board.get", "resources.Board.patch", "resources.Board.delete"}
    THEN \E b \in boards : b.id = a.board_id
    ELSE IF op \in {"resources.Column.get", "resources.Column.patch",
                     "resources.Column.delete"}
    THEN \E c \in columns : c.id = a.column_id /\ c.board_id = a.board_id
    ELSE \E t \in tasks : t.id = a.task_id /\ t.board_id = a.board_id

(* C18: every mutating Board, Column and Task endpoint (PATCH and DELETE)  *)
(* consults the permissions before it runs: an authenticated user who      *)
(* holds no capability on the board of a stored entity is answered 403     *)
(* (the request being well-formed) and the board, its columns and its      *)
(* tasks are left unchanged.                                               *)
C18_MutationRequiresCapability ==
    [][(/\ last'.op \in MutatingOps
        /\ last'.a.token = "valid" /\ last'.a.valid
        /\ Located(last'.op, last'.a)
        /\ Grants(last'.a.board_id) = {}) =>
            /\ last'.a.resp.status = 403
            /\ UNCHANGED <<users, boards, columns, tasks>>]_vars

(* C20: replacing the permissions of a user with a list in which at least  *)
(* one name is not in the catalog fails with a conflict (409) that names   *)
(* exactly the unknown entries, and the grants stored for the board and    *)
(* the user are what they were before the call.                            *)
C20_UnknownPermissionRejected ==
    [][(/\ last'.op = "resources.UserPermissions.put"
        /\ last'.a.names \ PermissionCatalog # {}) =>
            /\ last'.a.resp.status = 409
            /\ last'.a.resp.body.status = 409
            /\ last'.a.resp.body.unknown = last'.a.names \ PermissionCatalog
            /\ last'.a.grants = Grants(last'.a.board_id)
            /\ UNCHANGED <<users, boards, columns, tasks>>]_vars

(* The wrapped function raised an instance of one of the listed errors.    *)
RaisedListed(a) ==
    a.raised # "ok" /\ ErrorClasses(a.raised) \cap a.errors # {}

(* C22 as stated: a function wrapped by handle_error(E1..En, status=s,     *)
(* message=m) that raises nothing has its return value returned unchanged; *)
(* when it raises an instance of a listed error the wrapper returns        *)
(* ({status: s, message: M}, s), where M is m whenever m is given, and the *)
(* exception's `message` attribute when m is not given.                    *)
C22_HandleErrorMessageGiven ==
    [][last'.op = "handle_error" =>
        LET a == last'.a IN
        /\ a.raised = "ok" => (last'.err = "ok" /\ a.ret = a.returned)
        /\ RaisedListed(a) =>
              /\ last'.err = "ok"
              /\ a.ret.status = a.status
              /\ a.ret.body.status = a.status
              /\ a.message # None => a.ret.body.message = a.message
              /\ (a.message = None /\ a.raised \in ClientErrors)
                    => a.ret.body.message = a.raised_msg]_vars

(* C22 amended: M is m whenever m is given and not empty, also when the    *)
(* exception has its own `message` attribute; when m is not given or is    *)
(* the empty string, M is the exception's `message` attribute if it has    *)
(* one, and m otherwise. A function that raises nothing has its return     *)
(* value returned unchanged.                                               *)
C22_HandleErrorMessageNonEmpty ==
    [][last'.op = "handle_error" =>
        LET a == last'.a IN
        /\ a.raised = "ok" => (last'.err = "ok" /\ a.ret = a.returned)
        /\ RaisedListed(a) =>
              /\ last'.err = "ok"
              /\ a.ret.status = a.status
              /\ a.ret.body.status = a.status
              /\ a.ret.body.message =
                    IF a.message # None /\ a.message # "" THEN a.message
                    ELSE IF a.raised \in ClientErrors THEN a.raised_msg
                    ELSE a.message]_vars

(* A listed error that has a message of its own was raised under a handler *)
(* given another message, and the response carries the handler's message.  *)
C22_Witness ==
    /\ last.op = "handle_error"
    /\ RaisedListed(last.a)
    /\ last.a.raised \in ClientErrors
    /\ last.a.message = "caught" /\ last.a.raised_msg # "caught"
    /\ last.a.ret.body.message = "caught"

(* C26: when a login supplies both a name and an email the lookup uses the *)
(* name only: with the name and the password of a stored user A and any    *)
(* email (that of another stored user, or an unregistered one) a token for *)
(* A is returned; with an unregistered name and a registered email the     *)
(* login fails with UnauthorizedError.                                     *)
C26_LoginNameTakesPriority ==
    [][(last'.op = "User.login" /\ Truthy(last'.a.name) /\ last'.a.email # None) =>
        LET a == last'.a IN
        /\ \A A \in users :
              (A.name = a.name /\ Verify(a.password, A.password)) =>
                  /\ last'.err = "ok"
                  /\ last'.a.token = [identity |-> A.id]
        /\ (~\E A \in users : A.name = a.name) =>
                  last'.err = "UnauthorizedError"]_vars

(* A logged in with its name and password and the email of another stored  *)
(* user B.                                                                 *)
C26_Witness ==
    /\ last.op = "User.login" /\ last.err = "ok"
    /\ \E A, B \in users :
          /\ A # B
          /\ A.name = last.a.name /\ B.email = last.a.email
          /\ last.a.token = [identity |-> A.id]

(* C28 as stated: Column.merge(target, patch) overwrites the target's name *)
(* with the patch's name when that is not None and leaves it unchanged     *)
(* when it is None; the target's id and board_id are never changed,        *)
(* whatever the patch's id and board_id are, and the tasks are unchanged.  *)
C28_ColumnMergeNonNull ==
    [][last'.op = "Column.merge" =>
        LET self == last'.a.self
            other == last'.a.other
            merged == [id |-> self.id,
                       name |-> IF other.name # None THEN other.name ELSE self.name,
                       board_id |-> self.board_id]
        IN
        /\ columns' = (columns \ {self}) \cup {merged}
        /\ UNCHANGED <<users, boards, tasks>>]_vars

(* C28 amended: Column.merge(target, patch) changes at most the target's   *)
(* name: the name is overwritten with the patch's name when that is        *)
(* neither None nor the empty string and no other column of the target's   *)
(* board has that name; it is left unchanged when the patch's name is None *)
(* or ''; when another column of the board has the patch's name the merge  *)
(* fails with IntegrityError and changes nothing. The target's id and      *)
(* board_id are never changed, whatever the patch's id and board_id are,   *)
(* and the tasks of the column are unchanged.                              *)
C28_ColumnMergeNameOnly ==
    [][last'.op = "Column.merge" =>
        LET self == last'.a.self
            other == last'.a.other
            merged == [id |-> self.id,
                       name |-> IF other.name # None /\ other.name # ""
                                THEN other.name ELSE self.name,
                       board_id |-> self.board_id]
        IN
        /\ self \in columns
        /\ UNCHANGED <<users, boards, tasks>>
        /\ IF \E c \in columns \ {self} :
                  c.board_id = self.board_id /\ c.name = merged.name
           THEN last'.err = "IntegrityError" /\ columns' = columns
           ELSE last'.err = "ok" /\ columns' = (columns \ {self}) \cup {merged}]_vars

(* A column that holds a task was renamed by a patch that carries another  *)
(* id and another board_id.                                                *)
C28_Witness ==
    /\ last.op = "Column.merge" /\ last.err = "ok"
    /\ last.a.other.id \notin {NoId, last.a.self.id}
    /\ last.a.other.board_id \notin {NoId, last.a.self.board_id}
    /\ Truthy(last.a.other.name) /\ last.a.other.name # last.a.self.name
    /\ \E c \in columns :
          /\ c.id = last.a.self.id /\ c.board_id = last.a.self.board_id
          /\ c.name = last.a.other.name
          /\ \E t \in tasks : t.column_id = c.id

(* C30: Board.delete(id) on a stored board removes exactly that board, the *)
(* columns whose board_id is id and the tasks in those columns; every      *)
(* other board, every column and task of other boards and all users are    *)
(* unchanged. Column.delete removes exactly the column and its tasks: its  *)
(* board, the other columns and their tasks are unchanged.                 *)
C30_DeleteFrame ==
    [][/\ (last'.op = "Board.delete" /\ last'.err = "ok") =>
            LET id == last'.a.id
                gone == {c \in columns : c.board_id = id}
            IN
            /\ \E b \in boards : b.id = id
            /\ boards' = {b \in boards : b.id # id}
            /\ columns' = columns \ gone
            /\ tasks' = {t \in tasks : t.column_id \notin {c.id : c \in gone}}
            /\ \A t \in tasks : t.board_id # id => t \in tasks'
            /\ users' = users
       /\ (last'.op = "Column.delete" /\ last'.err = "ok") =>
            LET a == last'.a
                gone == {c \in columns : c.id = a.column_id /\ c.board_id = a.board_id}
            IN
            /\ Cardinality(gone) = 1
            /\ boards' = boards
            /\ columns' = columns \ gone
            /\ tasks' = {t \in tasks : t.column_id # a.column_id}
            /\ users' = users]_vars

(* A board with a column and a task was deleted while another board keeps  *)
(* its column and its task.                                                *)
C30_Witness ==
    /\ last.op = "Board.delete" /\ last.err = "ok"
    /\ last.a.columns # {} /\ last.a.tasks # {}
    /\ \E b \in boards, c \in columns, t \in tasks :
          c.board_id = b.id /\ t.column_id = c.id /\ t.board_id = b.id

(* C21: every stored task whose user_id is set references a stored user    *)
(* that the task's board permits, because Task.save_to_board rejects a     *)
(* task whose user_id names no stored user or a user without permission.   *)
C21_TaskUserPermitted ==
    \A t \in tasks :
        t.user_id # NoId =>
            \E u \in users : u.id = t.user_id /\ u.id \in Grants(t.board_id)

(* C29: a PATCH of a stored task of board b whose body names a column that *)
(* is not a column of b is answered 409 with a body of status and message  *)
(* (InconsistentDataError), and the stored task is unchanged.              *)
C29_PatchForeignColumnConflict ==
    [][(/\ last'.op = "resources.Task.patch"
        /\ last'.a.token = "valid" /\ last'.a.valid
        /\ last'.a.column_id # NoId
        /\ \E t \in tasks : t.id = last'.a.task_id /\ t.board_id = last'.a.board_id
        /\ ~\E c \in columns : c.id = last'.a.column_id
                                /\ c.board_id = last'.a.board_id)
       => /\ last'.a.resp.status = 409
          /\ DOMAIN last'.a.resp.body = {"status", "message"}
          /\ tasks' = tasks]_vars

(* C27: every user the register endpoint persists carries the hash of the  *)
(* submitted plaintext as its password and never the plaintext: a request  *)
(* stores at most one user, that of the register schema, with the name and *)
(* the email of the body; the user of the login schema, which keeps the    *)
(* plaintext, only serves the verification and is never stored.            *)
C27_RegisterStoresHash ==
    [][last'.op = "Register.post" =>
         LET body == last'.a.body
             new == users' \ users
         IN
         /\ users \subseteq users'
         /\ Cardinality(new) <= 1
         /\ last'.a.resp.status = 201 => Cardinality(new) = 1
         /\ \A u \in new :
               /\ u.name = body.username /\ u.email = body.email
               /\ u.password = Hash(body.password)
               /\ u.password # body.password
               /\ Verify(body.password, u.password)
               /\ last'.a.resp.status = 201
               /\ last'.a.resp.body.token = create_access_token(u.id)]_vars

(* A registration was answered 201 and its user is stored with the hash.   *)
C27_Witness ==
    /\ last.op = "Register.post" /\ last.a.resp.status = 201
    /\ \E u \in users : /\ u.name = last.a.body.username
                         /\ u.password = Hash(last.a.body.password)
                         /\ u.password # last.a.body.password

(* C23: when two register requests with the same name or the same email    *)
(* run at the same time, at most one of the two users is stored, because   *)
(* the uniqueness constraint rejects the second insert: names and emails   *)
(* are unique in every reachable state, and the insert of a user whose     *)
(* name or email was committed after its existence check fails with the    *)
(* raw IntegrityError, not AlreadyExistsError, and stores nothing.         *)
C23_RegisterRaceKeepsUnique ==
    [][/\ \A u, v \in users' :
             (u.name = v.name \/ u.email = v.email) => u = v
       /\ last'.op = "User.save:commit" =>
             LET u == last'.a.user IN
             IF \E s \in users : s.name = u.name \/ s.email = u.email
             THEN last'.err = "IntegrityError" /\ users' = users
             ELSE /\ last'.err = "ok"
                  /\ \E s \in users' \ users :
                        /\ users' = users \cup {s}
                        /\ s.name = u.name /\ s.email = u.email]_vars

(* The loser of a race: its existence check passed, the other request then *)
(* committed a user with the same name, and its insert was rejected.       *)
C23_Witness ==
    /\ last.op = "User.save:commit" /\ last.err = "IntegrityError"
    /\ \E s \in users : s.name = last.a.user.name /\ s.email # last.a.user.email

(* C24: under any interleaving of Column.save_to_board(b) with             *)
(* Board.delete(b), no stored column has a board_id that refers to a board *)
(* that is no longer stored.                                               *)
C24_NoOrphanColumn ==
    \A c \in columns : \E b \in boards : b.id = c.board_id

(* C25: when two Board.delete(id) calls for the same stored board are      *)
(* interleaved, each of them either completes or fails with NotFoundError, *)
(* no other error occurs, and a completing call removes the board.         *)
C25_DeleteRaceCompletesOrNotFound ==
    [][last'.op \in {"Board.delete:check", "Board.delete:fetch",
                     "Board.delete:delete", "Board.delete:commit"}
         => /\ last'.err \in {"ok", "NotFoundError"}
            /\ last'.op = "Board.delete:commit" =>
                  (\A b \in boards' : b.id # last'.a.id)]_vars

====
